---- MODULE Spec2Model ----
(***************************************************************************)
(* ET 2-Layer Threshold Lab Tool (src/app.py).                             *)
(*                                                                         *)
(* The script is a Streamlit page: every widget interaction re-runs the    *)
(* whole script with the widgets' current values, and the button `analyze` *)
(* is True only in the run its click triggers.  The state is the widgets'  *)
(* values and what the last run of the script put on the page.             *)
(*                                                                         *)
(* Numbers.  Python floats are modelled as exact rationals in lowest terms *)
(* (records [nan, n, d], d > 0) plus NaN; rounding is not modelled.  The   *)
(* cells of the step table are complete numeric records whose values lie   *)
(* on an integer grid (missing cells of a freshly added row are not        *)
(* modelled).  The columns Label and Duration_min are never read by the    *)
(* computation and are left out.                                           *)
(***************************************************************************)
EXTENDS Integers, Sequences, FiniteSets, TLC

VARIABLES
    vo2max, hrv_rest, n_steps,  \* the number_input widgets
    edited_df,                  \* the table the data_editor returns
    out,                        \* what the last run of the script put on the page
    events,                     \* widget interactions so far
    seen_error,                 \* history: an earlier analysis showed st.error
    scored, call                \* a scored table and a helper applied to it

vars == <<vo2max, hrv_rest, n_steps, edited_df, out, events, seen_error,
          scored, call>>

(***************************************************************************)
(* Bounds of the model.                                                    *)
(***************************************************************************)
\* widget interactions explored per session (Analyze clicks are not counted)
MaxEvents == 2
\* rows the step table may hold (n_steps and added rows)
MaxRows == 5
\* rows of an arbitrary scored table handed to the helper functions
MaxLen == 2

(***************************************************************************)
(* Floats as exact rationals.                                              *)
(***************************************************************************)
Abs(i) == IF i < 0 THEN -i ELSE i

RECURSIVE GCD(_, _)
GCD(a, b) == IF b = 0 THEN a ELSE GCD(b, a % b)

NaN == [nan |-> TRUE, n |-> 0, d |-> 1]

\* the float n/d (d # 0), in lowest terms with a positive denominator
Rat(n, d) ==
    LET g == GCD(Abs(n), Abs(d))
        s == IF d < 0 THEN -1 ELSE 1
    IN  [nan |-> FALSE, n |-> (s * n) \div g, d |-> (s * d) \div g]

\* float(v) of a numeric cell
Float(v) == Rat(v, 1)

\* comparisons: every comparison with NaN is False
FLt(a, b) == ~a.nan /\ ~b.nan /\ a.n * b.d < b.n * a.d
FLe(a, b) == ~a.nan /\ ~b.nan /\ a.n * b.d <= b.n * a.d
FGt(a, b) == FLt(b, a)
FGe(a, b) == FLe(b, a)

FSub(a, b) == IF a.nan \/ b.nan THEN NaN
              ELSE Rat(a.n * b.d - b.n * a.d, a.d * b.d)
FMul(a, b) == IF a.nan \/ b.nan THEN NaN ELSE Rat(a.n * b.n, a.d * b.d)
\* a / b for b # 0 (Python raises ZeroDivisionError for b = 0, see compute_et_layers)
FDiv(a, b) == IF a.nan \/ b.nan THEN NaN ELSE Rat(a.n * b.d, a.d * b.n)

\* Python's builtin min(a, b): the first argument unless the second is smaller
PyMin(a, b) == IF FLt(b, a) THEN b ELSE a

\* a faulty variant of SeriesMin: the first value instead of the smallest
SeriesMin_first(s) == IF s = <<>> THEN NaN ELSE Head(s)

\* pandas Series.min(): the smallest non-NaN value, NaN when there is none
RECURSIVE SeriesMin(_)
SeriesMin(s) ==
    IF s = <<>> THEN NaN
    ELSE LET rest == SeriesMin(Tail(s))
         IN  IF Head(s).nan THEN rest
             ELSE IF rest.nan THEN Head(s)
             ELSE IF FLt(rest, Head(s)) THEN rest ELSE Head(s)

\* the column `c` of a table, as a sequence
Column(df, c) == [i \in 1..Len(df) |-> df[i][c]]

(***************************************************************************)
(* Section 1: baseline configuration widgets.                              *)
(***************************************************************************)
Vo2maxMin == 10
Vo2maxMax == 90
Vo2maxDefault == 60
HrvRestMin == 10
HrvRestMax == 200
HrvRestDefault == 80
NStepsMin == 3
NStepsMax == 10
NStepsDefault == 5

\* reference values tried, inside and outside the widgets' ranges
Vo2maxChoices == {-10, 0, 10, 50, 60, 90}
HrvRestChoices == {-10, 0, 10, 78, 80, 200}

\* what st.number_input can return: the values within min_value..max_value
Vo2maxWidget == {v \in Vo2maxChoices : Vo2maxMin <= v /\ v <= Vo2maxMax}
HrvRestWidget == {v \in HrvRestChoices : HrvRestMin <= v /\ v <= HrvRestMax}
NStepsWidget == {n \in NStepsMin..NStepsMax : n <= MaxRows}

(***************************************************************************)
(* Section 2: the step table.                                              *)
(***************************************************************************)
StepRow(s, v, h) == [Step |-> s, VO2_current |-> v, HRV_current |-> h]

default_steps ==
    << StepRow(1, 20, 78), StepRow(2, 30, 70), StepRow(3, 36, 60),
       StepRow(4, 42, 48), StepRow(5, 50, 36) >>

\* the list resized to n_steps: cut, or padded with copies of the last step
ResizedSteps(n) ==
    IF n < Len(default_steps) THEN SubSeq(default_steps, 1, n)
    ELSE [i \in 1..n |->
            IF i <= Len(default_steps) THEN default_steps[i]
            ELSE StepRow(i, default_steps[Len(default_steps)].VO2_current,
                            default_steps[Len(default_steps)].HRV_current)]

\* values typed into the cells of the editor
StepChoices == {1, 9}
Vo2Choices == {-5, 0, 70}
HrvChoices == {-10, 0, 90}

(***************************************************************************)
(* Helper functions.                                                       *)
(***************************************************************************)
One == Float(1)
Zero == Float(0)

\* a faulty variant of X_VO2: the ratio is also clamped above, at 1
X_VO2_capped(vo2, vm) ==
    LET x  == FDiv(Float(vo2), Float(vm))
        x0 == IF FLt(x, Zero) THEN Zero ELSE x
    IN  IF FGt(x0, One) THEN One ELSE x0

\* VO2 layer: relative intensity vs VO2max, clamped below at 0 only
X_VO2(vo2, vm) ==
    LET x == FDiv(Float(vo2), Float(vm))
    IN  IF FLt(x, Zero) THEN Zero ELSE x

\* a faulty variant of X_HRV: the upper clamp is missing
X_HRV_unclamped(hrv, hr) ==
    LET x == FDiv(FSub(Float(hr), Float(hrv)), Float(hr))
    IN  IF FLt(x, Zero) THEN Zero ELSE x

\* HRV layer: relative HRV loss vs the resting value, clamped to [0, 1]
X_HRV(hrv, hr) ==
    LET x  == FDiv(FSub(Float(hr), Float(hrv)), Float(hr))
        x0 == IF FLt(x, Zero) THEN Zero ELSE x
    IN  IF FGt(x0, One) THEN One ELSE x0

\* the ET mapping 1.0 - x**2
ET(x) == FSub(One, FMul(x, x))

ScoredRow(row, vm, hr) ==
    [Step |-> row.Step, VO2_current |-> row.VO2_current,
     HRV_current |-> row.HRV_current,
     E_VO2 |-> ET(X_VO2(row.VO2_current, vm)),
     E_HRV |-> ET(X_HRV(row.HRV_current, hr))]

\* the divisors the loop divides by: none for an empty table; the first
\* division by zero raises ZeroDivisionError and ends the loop
Divisors(df, vm, hr) ==
    IF df = <<>> THEN {}
    ELSE IF vm = 0 THEN {vm}
    ELSE {vm, hr}

compute_et_layers(df, vm, hr) ==
    IF df # <<>> /\ (vm = 0 \/ hr = 0)
    THEN [raised |-> TRUE, df_out |-> <<>>]
    ELSE [raised |-> FALSE,
          df_out |-> [i \in 1..Len(df) |-> ScoredRow(df[i], vm, hr)]]

GreenCut == Rat(70, 100)
YellowCut == Rat(40, 100)
DeadBand == Rat(5, 100)

\* a faulty variant of Status: strict comparisons, the boundaries fall one tier lower
Status_strict(min_e) ==
    IF FGt(min_e, GreenCut) THEN "GREEN"
    ELSE IF FGt(min_e, YellowCut) THEN "YELLOW"
    ELSE "RED"

Status(min_e) ==
    IF FGe(min_e, GreenCut) THEN "GREEN"
    ELSE IF FGe(min_e, YellowCut) THEN "YELLOW"
    ELSE "RED"

\* a faulty variant of Limiter: the dead-band's edge is excluded (<= for <)
Limiter_inclusive(min_e_vo2, min_e_hrv) ==
    IF FLe(min_e_hrv, FSub(min_e_vo2, DeadBand)) THEN "autonomic"
    ELSE IF FLe(min_e_vo2, FSub(min_e_hrv, DeadBand)) THEN "metabolic"
    ELSE "balanced"

\* a faulty variant of Limiter: the two labels are exchanged
Limiter_swapped(min_e_vo2, min_e_hrv) ==
    IF FLt(min_e_hrv, FSub(min_e_vo2, DeadBand)) THEN "metabolic"
    ELSE IF FLt(min_e_vo2, FSub(min_e_hrv, DeadBand)) THEN "autonomic"
    ELSE "balanced"

Limiter(min_e_vo2, min_e_hrv) ==
    IF FLt(min_e_hrv, FSub(min_e_vo2, DeadBand)) THEN "autonomic"
    ELSE IF FLt(min_e_vo2, FSub(min_e_hrv, DeadBand)) THEN "metabolic"
    ELSE "balanced"

classify_overall(df_et) ==
    LET min_e_vo2 == SeriesMin(Column(df_et, "E_VO2"))
        min_e_hrv == SeriesMin(Column(df_et, "E_HRV"))
        min_e     == PyMin(min_e_vo2, min_e_hrv)
    IN  [status |-> Status(min_e), min_e |-> min_e, min_e_vo2 |-> min_e_vo2,
         min_e_hrv |-> min_e_hrv, limiter |-> Limiter(min_e_vo2, min_e_hrv)]

\* Python's None, and int(row["Step"])
None == [found |-> FALSE, step |-> 0]
Found(s) == [found |-> TRUE, step |-> s]

\* a faulty variant of find_threshold_step: a strict comparison with the cut-off
RECURSIVE find_threshold_step_strict(_, _, _)
find_threshold_step_strict(df_et, column, cut) ==
    IF df_et = <<>> THEN None
    ELSE IF FLt(Head(df_et)[column], cut) THEN Found(Head(df_et).Step)
    ELSE find_threshold_step_strict(Tail(df_et), column, cut)

RECURSIVE find_threshold_step(_, _, _)
find_threshold_step(df_et, column, cut) ==
    IF df_et = <<>> THEN None
    ELSE IF FLe(Head(df_et)[column], cut) THEN Found(Head(df_et).Step)
    ELSE find_threshold_step(Tail(df_et), column, cut)

(***************************************************************************)
(* Section 3: one run of the script, from the widgets' values to the page. *)
(***************************************************************************)
\* a faulty variant of metabolic_cut: a lower cut-off
metabolic_cut_low == Rat(30, 100)

metabolic_cut == Rat(50, 100)
autonomic_cut == Rat(70, 100)

NoCls == [status |-> "", min_e |-> NaN, min_e_vo2 |-> NaN,
          min_e_hrv |-> NaN, limiter |-> ""]

Page(panel, calls, divisors, df_et, cls, ms, as) ==
    [panel |-> panel, calls |-> calls, divisors |-> divisors, df_et |-> df_et,
     cls |-> cls, metabolic_step |-> ms, autonomic_step |-> as]

\* a faulty variant of BadReference: a reference of exactly zero passes the guard
BadReference_strict(vm, hr) == vm < 0 \/ hr < 0

\* the guard of the results section
BadReference(vm, hr) == vm <= 0 \/ hr <= 0

ScriptRun(vm, hr, df, analyze) ==
    IF ~analyze THEN Page("info", <<>>, {}, <<>>, NoCls, None, None)
    ELSE IF BadReference(vm, hr)
    THEN Page("error", <<>>, {}, <<>>, NoCls, None, None)
    ELSE LET c == compute_et_layers(df, vm, hr) IN
         IF c.raised
         THEN Page("exception", <<"compute_et_layers">>, Divisors(df, vm, hr),
                   <<>>, NoCls, None, None)
         ELSE Page("results",
                   <<"compute_et_layers", "classify_overall",
                     "find_threshold_step", "find_threshold_step">>,
                   Divisors(df, vm, hr), c.df_out, classify_overall(c.df_out),
                   find_threshold_step(c.df_out, "E_VO2", metabolic_cut),
                   find_threshold_step(c.df_out, "E_HRV", autonomic_cut))

(***************************************************************************)
(* The page as a state machine.                                            *)
(***************************************************************************)
NoCall == [fn |-> "none", column |-> "", cut |-> NaN, cls |-> NoCls, step |-> None]

Init ==
    /\ vo2max = Vo2maxDefault
    /\ hrv_rest = HrvRestDefault
    /\ n_steps = NStepsDefault
    /\ edited_df = ResizedSteps(NStepsDefault)
    /\ out = ScriptRun(Vo2maxDefault, HrvRestDefault, ResizedSteps(NStepsDefault), FALSE)
    /\ events = 0
    /\ seen_error = FALSE
    /\ scored = <<>>
    /\ call = NoCall

\* a widget changed: the script re-runs with analyze = False
Rerun == /\ events < MaxEvents
         /\ events' = events + 1
         /\ out' = ScriptRun(vo2max', hrv_rest', edited_df', FALSE)
         /\ UNCHANGED <<seen_error, scored, call>>

ChangeVo2max(D) ==
    \E v \in D :
        /\ v # vo2max
        /\ vo2max' = v
        /\ UNCHANGED <<hrv_rest, n_steps, edited_df>>
        /\ Rerun

ChangeHrvRest(D) ==
    \E v \in D :
        /\ v # hrv_rest
        /\ hrv_rest' = v
        /\ UNCHANGED <<vo2max, n_steps, edited_df>>
        /\ Rerun

\* a new n_steps gives the editor a new table: its edits are dropped
ChangeNSteps ==
    \E n \in NStepsWidget :
        /\ n # n_steps
        /\ n_steps' = n
        /\ edited_df' = ResizedSteps(n)
        /\ UNCHANGED <<vo2max, hrv_rest>>
        /\ Rerun

CellChoices(col) ==
    IF col = "Step" THEN StepChoices
    ELSE IF col = "VO2_current" THEN Vo2Choices ELSE HrvChoices

EditCell ==
    \E i \in 1..Len(edited_df), col \in {"Step", "VO2_current", "HRV_current"} :
        \E v \in CellChoices(col) :
            /\ v # edited_df[i][col]
            /\ edited_df' = [edited_df EXCEPT ![i][col] = v]
            /\ UNCHANGED <<vo2max, hrv_rest, n_steps>>
            /\ Rerun

\* num_rows="dynamic": a row is appended
AddRow ==
    \E s \in StepChoices, v \in Vo2Choices, h \in HrvChoices :
        /\ Len(edited_df) < MaxRows
        /\ edited_df' = Append(edited_df, StepRow(s, v, h))
        /\ UNCHANGED <<vo2max, hrv_rest, n_steps>>
        /\ Rerun

RECURSIVE Keep(_, _, _)
Keep(df, i, gone) ==
    IF i > Len(df) THEN <<>>
    ELSE IF i \in gone THEN Keep(df, i + 1, gone)
    ELSE <<df[i]>> \o Keep(df, i + 1, gone)

\* num_rows="dynamic": the selected rows are deleted (all of them, possibly)
DeleteRows ==
    \E gone \in SUBSET (1..Len(edited_df)) :
        /\ gone # {}
        /\ edited_df' = Keep(edited_df, 1, gone)
        /\ UNCHANGED <<vo2max, hrv_rest, n_steps>>
        /\ Rerun

\* the button: the script re-runs with analyze = True
Analyze ==
    /\ out' = ScriptRun(vo2max, hrv_rest, edited_df, TRUE)
    /\ seen_error' = (seen_error \/ out'.panel = "error")
    /\ UNCHANGED <<vo2max, hrv_rest, n_steps, edited_df, events, scored, call>>

Next ==
    \/ ChangeVo2max(Vo2maxWidget)
    \/ ChangeHrvRest(HrvRestWidget)
    \/ ChangeNSteps
    \/ EditCell
    \/ AddRow
    \/ DeleteRows
    \/ Analyze

Spec == Init /\ [][Next]_vars

(***************************************************************************)
(* The results section driven with any reference value: the number_input   *)
(* widgets never deliver a value below their min_value, so the guard       *)
(* "vo2max <= 0 or hrv_rest <= 0" is exercised here with references beyond *)
(* the widgets' ranges.                                                    *)
(***************************************************************************)
NextAnyRef ==
    \/ ChangeVo2max(Vo2maxChoices)
    \/ ChangeHrvRest(HrvRestChoices)
    \/ EditCell
    \/ DeleteRows
    \/ Analyze

SpecAnyRef == Init /\ [][NextAnyRef]_vars

(***************************************************************************)
(* classify_overall and find_threshold_step applied to arbitrary scored    *)
(* tables: ET values on a grid of hundredths around the cut-offs.          *)
(***************************************************************************)
EGrid == {Rat(h, 100) : h \in {35, 40, 50, 70, 75}}
CutChoices == {YellowCut, metabolic_cut, autonomic_cut}
ETColumns == {"E_VO2", "E_HRV"}

ScoredRows == [Step : StepChoices, E_VO2 : EGrid, E_HRV : EGrid]
ScoredTables == UNION {[1..k -> ScoredRows] : k \in 0..MaxLen}

InitPure ==
    /\ vo2max = Vo2maxDefault
    /\ hrv_rest = HrvRestDefault
    /\ n_steps = NStepsDefault
    /\ edited_df = <<>>
    /\ out = ScriptRun(Vo2maxDefault, HrvRestDefault, <<>>, FALSE)
    /\ events = 0
    /\ seen_error = FALSE
    /\ scored \in ScoredTables
    /\ call = NoCall

CallClassify ==
    /\ call' = [NoCall EXCEPT !.fn = "classify_overall",
                              !.cls = classify_overall(scored)]
    /\ UNCHANGED <<vo2max, hrv_rest, n_steps, edited_df, out, events,
                       seen_error, scored>>

CallFindThreshold ==
    \E column \in ETColumns, cut \in CutChoices :
        /\ call' = [NoCall EXCEPT !.fn = "find_threshold_step",
                                  !.column = column, !.cut = cut,
                                  !.step = find_threshold_step(scored, column, cut)]
        /\ UNCHANGED <<vo2max, hrv_rest, n_steps, edited_df, out, events,
                       seen_error, scored>>

NextPure == CallClassify \/ CallFindThreshold

SpecPure == InitPure /\ [][NextPure]_vars

(***************************************************************************)
(* Properties.                                                             *)
(***************************************************************************)
\* x as a number of hundredths is k: x = k/100
Is(x, k) == ~x.nan /\ x.n * 100 = k * x.d
\* x < k/100, x >= k/100
Under(x, k) == ~x.nan /\ x.n * 100 < k * x.d
AtLeast(x, k) == ~x.nan /\ x.n * 100 >= k * x.d
\* x < y - k/100, over the integers
BelowBy(x, y, k) == 100 * x.n * y.d < 100 * y.n * x.d - k * x.d * y.d

\* the smallest value of a non-empty set of floats, stated without SeriesMin
Least(S) == CHOOSE m \in S : \A e \in S : m.n * e.d <= e.n * m.d
ColumnSet(df, c) == {df[i][c] : i \in 1..Len(df)}

Classified == call.fn = "classify_overall" /\ scored # <<>>

\* C1: for a non-empty scored table, status is GREEN exactly when the minimum
\* of all E_VO2 and E_HRV values is >= 0.70, YELLOW exactly when it is in
\* [0.40, 0.70), RED exactly when it is < 0.40; min_e is that minimum.
C1_StatusTiers ==
    Classified =>
        LET m == Least(ColumnSet(scored, "E_VO2") \cup ColumnSet(scored, "E_HRV"))
        IN  /\ call.cls.min_e = m
            /\ (call.cls.status = "GREEN") <=> AtLeast(m, 70)
            /\ (call.cls.status = "YELLOW") <=> (AtLeast(m, 40) /\ Under(m, 70))
            /\ (call.cls.status = "RED") <=> Under(m, 40)
            /\ call.cls.status \in {"GREEN", "YELLOW", "RED"}

\* a two-row table whose minimum is exactly 0.70 is classified GREEN
C1_Witness ==
    /\ Classified
    /\ Len(scored) = 2
    /\ Is(call.cls.min_e, 70)
    /\ Is(scored[1].E_VO2, 75)
    /\ call.cls.status = "GREEN"

\* C2: limiter is autonomic exactly when min_e_hrv < min_e_vo2 - 0.05,
\* metabolic exactly when min_e_vo2 < min_e_hrv - 0.05, balanced otherwise;
\* the two conditions exclude each other, and minima at most 0.05 apart give
\* balanced.
C2_LimiterDeadBand ==
    Classified =>
        LET v == Least(ColumnSet(scored, "E_VO2"))
            h == Least(ColumnSet(scored, "E_HRV"))
        IN  /\ (call.cls.limiter = "autonomic") <=> BelowBy(h, v, 5)
            /\ (call.cls.limiter = "metabolic") <=> BelowBy(v, h, 5)
            /\ (call.cls.limiter = "balanced")
                   <=> (~BelowBy(h, v, 5) /\ ~BelowBy(v, h, 5))
            /\ ~(BelowBy(h, v, 5) /\ BelowBy(v, h, 5))
            /\ call.cls.limiter \in {"autonomic", "metabolic", "balanced"}

\* minima exactly 0.05 apart (0.40 and 0.35) are balanced
C2_Witness ==
    /\ Classified
    /\ Is(call.cls.min_e_vo2, 40)
    /\ Is(call.cls.min_e_hrv, 35)
    /\ call.cls.limiter = "balanced"

\* C3: find_threshold_step returns the Step of the first row, in the order
\* supplied, whose ET value in the column is <= cut, and None exactly when no
\* row has one.
C3_FirstCrossing ==
    call.fn = "find_threshold_step" =>
        LET hits == {i \in 1..Len(scored) :
                        scored[i][call.column].n * call.cut.d
                            <= call.cut.n * scored[i][call.column].d}
        IN  /\ (call.step = None) <=> (hits = {})
            /\ hits # {} =>
                 \E i \in hits :
                    /\ \A j \in hits : i <= j
                    /\ call.step = Found(scored[i].Step)

\* the second row is the first at the cut-off, exactly: its Step is returned
C3_Witness ==
    /\ call.fn = "find_threshold_step"
    /\ Len(scored) = 2
    /\ scored[1].Step # scored[2].Step
    /\ FGt(scored[1][call.column], call.cut)
    /\ scored[2][call.column] = call.cut
    /\ call.step = Found(scored[2].Step)

\* C6: with a positive hrv_rest every E_HRV is in [0, 1]; an HRV at or above
\* hrv_rest gives 1 and an HRV at or below 0 gives 0.
C6_EHrvRange ==
    out.panel = "results" =>
        \A i \in 1..Len(out.df_et) :
            LET e == out.df_et[i].E_HRV
                hrv == edited_df[i].HRV_current
            IN  /\ hrv_rest > 0
                /\ Len(out.df_et) = Len(edited_df)
                /\ AtLeast(e, 0) /\ ~AtLeast(e, 101) /\ e.n <= e.d
                /\ hrv >= hrv_rest => Is(e, 100)
                /\ hrv <= 0 => Is(e, 0)

\* analysed: one step with a negative HRV and one with an HRV above rest
C6_Witness ==
    /\ out.panel = "results"
    /\ \E i \in 1..Len(out.df_et) :
          edited_df[i].HRV_current < 0 /\ Is(out.df_et[i].E_HRV, 0)
    /\ \E i \in 1..Len(out.df_et) :
          edited_df[i].HRV_current > hrv_rest /\ Is(out.df_et[i].E_HRV, 100)

\* C7: with a positive vo2max every E_VO2 is <= 1 and is negative exactly when
\* the step's VO2 exceeds vo2max; a VO2 <= 0 gives 1, a VO2 = vo2max gives 0.
C7_EVo2Range ==
    out.panel = "results" =>
        \A i \in 1..Len(out.df_et) :
            LET e == out.df_et[i].E_VO2
                vo2 == edited_df[i].VO2_current
            IN  /\ vo2max > 0
                /\ ~e.nan /\ e.n <= e.d
                /\ Under(e, 0) <=> vo2 > vo2max
                /\ vo2 <= 0 => Is(e, 100)
                /\ vo2 = vo2max => Is(e, 0)

\* analysed: a supra-maximal step (negative E_VO2) and a step at VO2max
C7_Witness ==
    /\ out.panel = "results"
    /\ \E i \in 1..Len(out.df_et) :
          edited_df[i].VO2_current > vo2max /\ Under(out.df_et[i].E_VO2, 0)
    /\ \E i \in 1..Len(out.df_et) :
          edited_df[i].VO2_current = vo2max /\ Is(out.df_et[i].E_VO2, 0)

RowOrders(n) == {p \in [1..n -> 1..n] : \A i, j \in 1..n : p[i] = p[j] => i = j}
Reordered(df, p) == [i \in 1..Len(df) |-> df[p[i]]]

\* C8: classify_overall returns the same status, min_e, min_e_vo2, min_e_hrv
\* and limiter for every permutation of the rows.
C8_OrderIndependent ==
    call.fn = "classify_overall" =>
        \A p \in RowOrders(Len(scored)) :
            classify_overall(Reordered(scored, p)) = call.cls

\* classified: two rows whose exchange moves both minima to the other row
C8_Witness ==
    /\ call.fn = "classify_overall"
    /\ Len(scored) = 2
    /\ FLt(scored[2].E_VO2, scored[1].E_VO2)
    /\ FLt(scored[1].E_HRV, scored[2].E_HRV)
    /\ call.cls.min_e_vo2 = scored[2].E_VO2
    /\ call.cls.min_e_hrv = scored[1].E_HRV

\* C9: an analysis of a non-empty table that ends RED has found a metabolic
\* step (E_VO2 <= 0.50) or an autonomic step (E_HRV <= 0.70).
C9_RedHasThreshold ==
    (out.panel = "results" /\ edited_df # <<>> /\ out.cls.status = "RED") =>
        (out.metabolic_step # None \/ out.autonomic_step # None)

\* analysed RED with the metabolic step found and no autonomic step
C9_Witness ==
    /\ out.panel = "results"
    /\ edited_df # <<>>
    /\ out.cls.status = "RED"
    /\ out.metabolic_step.found
    /\ out.autonomic_step = None

\* C10: limiter autonomic: min_e is min_e_hrv, strictly below min_e_vo2;
\* limiter metabolic: min_e is min_e_vo2, strictly below min_e_hrv.
C10_LimiterAttainsMinimum ==
    Classified =>
        LET v == Least(ColumnSet(scored, "E_VO2"))
            h == Least(ColumnSet(scored, "E_HRV"))
        IN  /\ call.cls.limiter = "autonomic" =>
                /\ call.cls.min_e = h
                /\ call.cls.min_e_hrv = h
                /\ h.n * v.d < v.n * h.d
            /\ call.cls.limiter = "metabolic" =>
                /\ call.cls.min_e = v
                /\ call.cls.min_e_vo2 = v
                /\ v.n * h.d < h.n * v.d

\* classified autonomic with the minimum on the HRV layer
C10_Witness ==
    /\ Classified
    /\ call.cls.limiter = "autonomic"
    /\ Is(call.cls.min_e, 35)
    /\ Is(call.cls.min_e_vo2, 50)

Computed == <<"compute_et_layers", "classify_overall",
              "find_threshold_step", "find_threshold_step">>

\* C5: an analysis with vo2max <= 0 or hrv_rest <= 0 reports the error and
\* calls none of the helpers, no run ever divides by a reference <= 0, and an
\* analysis with positive references is carried out, also after an error.
C5_GuardedReferences ==
    /\ \A d \in out.divisors : d > 0
    /\ out.panel # "info" =>
          IF vo2max <= 0 \/ hrv_rest <= 0
          THEN /\ out.panel = "error"
               /\ out.calls = <<>>
               /\ out.divisors = {}
               /\ out.cls = NoCls
               /\ seen_error
          ELSE /\ out.panel = "results"
               /\ out.calls = Computed
               /\ Len(out.df_et) = Len(edited_df)

\* after a rejected analysis, one with corrected references shows results
C5_Witness ==
    /\ seen_error
    /\ out.panel = "results"
    /\ edited_df # <<>>
    /\ out.divisors = {vo2max, hrv_rest}

\* C4: an analysis of an empty step table is rejected with an error and
\* produces no status, limiter or threshold.
C4_EmptyRejected ==
    (out.panel # "info" /\ edited_df = <<>>) =>
        /\ out.panel = "error"
        /\ out.cls = NoCls
        /\ out.metabolic_step = None
        /\ out.autonomic_step = None

====
